---- MODULE Spec2Model ----
(***************************************************************************)
(* Model of the LLM invocation layer (core/llm_client.py) and of the RAG   *)
(* orchestrator (core/rag.py).                                             *)
(*                                                                         *)
(* Spec    : one call of llm_client.complete(), one step per request sent  *)
(*           to the text-generation API (client.chat.completions.create)   *)
(*           and, in streaming mode, one step per pull of the consumer.    *)
(* SpecRAG : one call of rag.query(), one step per call of a collaborator  *)
(*           (vector_store.query_collection, llm_client.complete).         *)
(***************************************************************************)
EXTENDS Integers, Sequences, FiniteSets, TLC

\* ------------------------------------------------------------------------
\* Configuration (utils/config.py)
\* ------------------------------------------------------------------------
LLM_MODEL == "llama-3.3-70b-versatile"

LLM_FALLBACK_MODEL == "llama-3.1-8b-instant"

LLM_MAX_RETRIES == 3

\* seconds (1.0 in the source)
LLM_RETRY_BASE_DELAY == 1

TOP_K == 5

RERANK_CANDIDATES == 20

MULTI_QUERY_VARIANTS == 3

\* ------------------------------------------------------------------------
\* Bounds of the model
\* ------------------------------------------------------------------------
\* fragments a stream delivers at most before it ends or fails
MaxChunks == 2

\* chunks a notebook's collection holds at most
MaxStore == 6

\* on_chat calls of one conversation
MaxTurns == 3

\* requests that run concurrently, each in its own thread
MaxThreads == 3

\* chunks of one add_documents call
MaxBatch == 2

\* add_documents calls made on one collection
MaxAdds == 2

\* chunks of 1500 characters a summarized text has at most
MaxWindows == 4

\* ------------------------------------------------------------------------
\* The remote API's answers
\* ------------------------------------------------------------------------
\* Python's None as the content of a message
None == "None"

\* response.choices[0].message.content of a successful answer
Contents == {None, "", "  ", "Hello!"}

\* status codes of an APIStatusError that is not a RateLimitError
StatusCodes == {400, 404, 500, 503}

\* status code carried by a RateLimitError
RATE_LIMIT_STATUS == 429

\* status code of an answer that is not an error
OK_STATUS == 200

NoError == [kind |-> "none", status |-> 0]

RateLimitError == [kind |-> "rate_limit", status |-> RATE_LIMIT_STATUS]

APIStatusError(status) == [kind |-> "status", status |-> status]

NoRequest == [kind |-> "none", status |-> 0, content |-> None, model |-> 0,
              attempt |-> 0, seq |-> 0]

NoResponse == [text |-> None, model |-> "", fallback_used |-> FALSE]

\* str.strip() on the texts of the model
Strip(text) == IF text = "  " THEN "" ELSE text

\* `content or ""`
OrEmpty(content) == IF content = None \/ content = "" THEN "" ELSE content

IsEmptyText_NoStrip(text) == text = ""

\* `not text.strip()`
IsEmptyText(text) == Strip(text) = ""

models_FlagsSwapped == << [name |-> LLM_MODEL, is_fallback |-> TRUE],
                          [name |-> LLM_FALLBACK_MODEL, is_fallback |-> FALSE] >>

\* models = [(LLM_MODEL, False), (LLM_FALLBACK_MODEL, True)]
models == << [name |-> LLM_MODEL, is_fallback |-> FALSE],
             [name |-> LLM_FALLBACK_MODEL, is_fallback |-> TRUE] >>

PRIMARY == 1

FALLBACK == 2

Caught_OnlyRateLimit(e) == e.kind = "rate_limit"

\* `except (RateLimitError, APIStatusError)` of complete()
Caught(e) == e.kind \in {"rate_limit", "status"}

IsServerError_Any(status) == status >= 400

\* `e.status_code >= 500`: the server errors that are retried
IsServerError(status) == status >= 500

HasRetryLeft_OffByOne(a) == a <= LLM_MAX_RETRIES

\* `attempt < LLM_MAX_RETRIES`: another attempt follows this failed one
HasRetryLeft(a) == a < LLM_MAX_RETRIES

Delay_Linear(a) == LLM_RETRY_BASE_DELAY * (a + 1)

\* delay = LLM_RETRY_BASE_DELAY * (2 ** attempt)
Delay(a) == LLM_RETRY_BASE_DELAY * (2 ^ a)

VARIABLES
    pc,          \* "idle" | "call" (inside _call_with_retry) | "streaming" | "done"
    stream,      \* the stream argument of complete()
    model,       \* index into models of the model being tried
    attempt,     \* loop variable of _call_with_retry
    retried,     \* the empty-response retry (line 132) of this model has started
    last_error,  \* last_error of _call_with_retry
    outcome,     \* how complete() ended: "none" | "response" | "generator" |
                 \*   "unavailable" | "raised"
    resp,        \* the LLMResponse returned
    streamState, \* "none" | "open" | "ended" | "failed": the generator
    chunks,      \* fragments the generator has yielded
    \* history of the call
    requests,    \* requests[m]: requests sent to model m during this call
    seqNo,       \* number of _call_with_retry invocations started
    seqRequests, \* requests sent by the current _call_with_retry invocation
    sleeps,      \* delays slept by the current _call_with_retry invocation
    sleepCount,  \* time.sleep calls of the whole call
    failed,      \* models whose attempt sequence ended in an error
    lastRequest, \* the last request sent and the API's answer to it
    lastSeq,     \* the last _call_with_retry invocation that ended
    statuses     \* status codes the API has answered with during this call

llmVars == << pc, stream, model, attempt, retried, last_error, outcome, resp,
              streamState, chunks, requests, seqNo, seqRequests, sleeps,
              sleepCount, failed, lastRequest, lastSeq, statuses >>

VARIABLES
    rpc,          \* position in query(): "idle" | "naive_vs" | "hyde_llm" |
                  \*   "hyde_vs" | "rerank_vs" | "rerank_llm" | "mq_llm" |
                  \*   "mq_vs" | "answer" | "done"
    store,        \* the notebook's collection: chunks with their metadata
    requested,    \* the technique argument of query()
    technique,    \* the technique after the _TECHNIQUE_MAP test
    question,     \* the question argument of query()
    hypothetical, \* text of the HyDE answer paragraph
    initial,      \* result of the first query of _reranking_retrieve
    all_queries,  \* [question] + variants[:MULTI_QUERY_VARIANTS]
    qi,           \* index into all_queries of the next query
    fused,        \* doc_scores / doc_data, in insertion order
    results,      \* what retrieve_fn returned
    response,     \* the RAGResponse returned
    raised,       \* the exception that left query(): "none" or its name
    calls,        \* history: the collaborator calls of this query(), in order
    llm_text,     \* response.text of the strategy's own call of the model
    retrieved,    \* history: the documents and metadatas each query of
                  \*   _multi_query_retrieve got, in the order of the queries
    unavailable   \* history: the call of the model that raised
                  \*   LLMUnavailableError ("none", or what the call was for)

ragVars == << rpc, store, requested, technique, question, hypothetical,
              initial, all_queries, qi, fused, results, response, raised,
              calls, llm_text, retrieved, unavailable >>

\* ------------------------------------------------------------------------
\* State of the chat of one notebook (app.py on_chat, storage/chat_store.py)
\* ------------------------------------------------------------------------
VARIABLES
    cpc,         \* "idle" | "query" (on_chat is inside rag.query)
    display,     \* the history list the chatbot shows: [role, content]
    persisted,   \* chat/messages.jsonl: [role, content, rag_technique]
    message,     \* message.strip() of the on_chat call under way
    turns,       \* on_chat calls made so far
    chatRaised,  \* the exception that left the last on_chat: "none" or name
    lastQuery    \* how rag.query ended in the last on_chat: "none" |
                 \*   "returned" | "LLMUnavailableError" | "Exception"

chatVars == << cpc, display, persisted, message, turns, chatRaised,
               lastQuery >>

\* ------------------------------------------------------------------------
\* State of one _summarize_text call (core/artifacts.py)
\* ------------------------------------------------------------------------
VARIABLES
    spc,             \* "idle" | "map" (inside the loop over the chunks) | "done"
    text_len,        \* len(text) of the argument; its characters are 0..len-1
    wi,              \* the chunk the loop is at, counted from 1
    chunk_summaries, \* the list the loop appends to
    summary,         \* the value returned
    sumRaised,       \* the exception that left _summarize_text, or "none"
    sumCalls,        \* history: calls of llm_client.complete() made
    failedWindows    \* history: the chunks whose call raised

sumVars == << spc, text_len, wi, chunk_summaries, summary, sumRaised, sumCalls,
              failedWindows >>

\* ------------------------------------------------------------------------
\* The cached client handles (core/llm_client.py, storage/vector_store.py)
\* and the threads of the requests that ask for them
\* ------------------------------------------------------------------------
VARIABLES
    client,         \* llm_client._client: None or the client object
    clients,        \* vector_store._clients: chroma directory -> client
    tpc,            \* thread -> "idle" | "check" | "construct" | "assign" |
                    \*           "return" | "done", its place in _get_client
    target,         \* thread -> the handle its _get_client call is for
    made,           \* thread -> the object its constructor call returned
    got,            \* thread -> the object its _get_client call returned
    constructions   \* history: handle -> constructor calls made for it

clientVars == << client, clients, tpc, target, made, got, constructions >>

\* ------------------------------------------------------------------------
\* One notebook's collection under add_documents (storage/vector_store.py)
\* ------------------------------------------------------------------------
VARIABLES
    collection,   \* chunk id -> the document and metadata stored under it
    lastArgs,     \* history: the arguments of the last add_documents call
    repeated,     \* history: the last call had the arguments of the one
                  \* before it
    addRaised,    \* the exception that left the last call, or "none"
    addCalls      \* history: add_documents calls made

addVars == << collection, lastArgs, repeated, addRaised, addCalls >>

\* the state outside llm_client and rag
appVars == << chatVars, sumVars, clientVars, addVars >>

vars == << llmVars, ragVars, appVars >>

NoSeq == [model |-> 0, requests |-> 0, sleeps |-> << >>, result |-> "none",
          error |-> NoError, retry |-> FALSE]

InitLLM ==
    /\ pc = "idle"
    /\ stream = FALSE
    /\ model = PRIMARY
    /\ attempt = 0
    /\ retried = FALSE
    /\ last_error = NoError
    /\ outcome = "none"
    /\ resp = NoResponse
    /\ streamState = "none"
    /\ chunks = 0
    /\ requests = [m \in {PRIMARY, FALLBACK} |-> 0]
    /\ seqNo = 0
    /\ seqRequests = 0
    /\ sleeps = << >>
    /\ sleepCount = 0
    /\ failed = {}
    /\ lastRequest = NoRequest
    /\ lastSeq = NoSeq
    /\ statuses = {}

\* ------------------------------------------------------------------------
\* rag.py: values
\* ------------------------------------------------------------------------
NoResults == [documents |-> << >>, metadatas |-> << >>, distances |-> << >>]

NoRAGResponse == [answer |-> None, citations |-> << >>, technique |-> "",
                  chunks_considered |-> -1]

NO_DOCUMENTS_ANSWER == "No documents have been added to this notebook yet."

\* _TECHNIQUE_MAP
TECHNIQUE_MAP == {"naive", "hyde", "reranking", "multi_query"}

RagIdle ==
    /\ rpc = "idle"
    /\ requested = ""
    /\ technique = ""
    /\ question = ""
    /\ hypothetical = ""
    /\ initial = NoResults
    /\ all_queries = << >>
    /\ qi = 0
    /\ fused = << >>
    /\ results = NoResults
    /\ response = NoRAGResponse
    /\ raised = "none"
    /\ calls = << >>
    /\ llm_text = ""
    /\ retrieved = << >>
    /\ unavailable = "none"

\* an empty conversation, no on_chat call under way
ChatIdle ==
    /\ cpc = "idle"
    /\ display = << >>
    /\ persisted = << >>
    /\ message = ""
    /\ turns = 0
    /\ chatRaised = "none"
    /\ lastQuery = "none"

\* the value of a call that has not returned
NoSummary == [sep |-> "", pieces |-> << >>]

\* no _summarize_text call has been made
SumIdle ==
    /\ spc = "idle"
    /\ text_len = 0
    /\ wi = 0
    /\ chunk_summaries = << >>
    /\ summary = NoSummary
    /\ sumRaised = "none"
    /\ sumCalls = 0
    /\ failedWindows = {}

Threads == 1..MaxThreads

\* the chroma directories of the notebooks in use
ChromaDirs == {"data/users/alice/chroma", "data/users/bob/chroma"}

\* the handles: the API client and one vector-store client per directory
Handles == {"groq"} \cup ChromaDirs

\* the n-th object a constructor returned for handle h
ClientObject(h, n) == [handle |-> h, n |-> n]

\* None: no client object
NoClient == [handle |-> "none", n |-> 0]

\* no request has asked for a client
ClientIdle ==
    /\ client = NoClient
    /\ clients = << >>
    /\ tpc = [t \in Threads |-> "idle"]
    /\ target = [t \in Threads |-> "none"]
    /\ made = [t \in Threads |-> NoClient]
    /\ got = [t \in Threads |-> NoClient]
    /\ constructions = [h \in Handles |-> 0]

NoArgs == [chunks |-> << >>, metadatas |-> << >>]

\* the collection is new and add_documents has not been called
AddIdle ==
    /\ collection = << >>
    /\ lastArgs = NoArgs
    /\ repeated = FALSE
    /\ addRaised = "none"
    /\ addCalls = 0

AppIdle == ChatIdle /\ SumIdle /\ ClientIdle /\ AddIdle

\* State before complete() is called; no query() is running.
Init ==
    /\ InitLLM
    /\ RagIdle
    /\ store = << >>
    /\ AppIdle

\* ------------------------------------------------------------------------
\* complete(): entry
\* ------------------------------------------------------------------------
\* Entering _call_with_retry for model m: last_error = None, attempt = 0.
EnterCallWithRetry(m, isRetry) ==
    /\ pc' = "call"
    /\ model' = m
    /\ retried' = isRetry
    /\ attempt' = 0
    /\ last_error' = NoError
    /\ seqNo' = seqNo + 1
    /\ seqRequests' = 0
    /\ sleeps' = << >>

Complete_FallbackFirst(s) ==
    /\ pc = "idle"
    /\ stream' = s
    /\ EnterCallWithRetry(FALLBACK, FALSE)
    /\ UNCHANGED << outcome, resp, streamState, chunks, requests, sleepCount,
                    failed, lastRequest, lastSeq, statuses >>

\* complete(prompt, stream=s): the first model of the list is tried.
Complete(s) ==
    /\ pc = "idle"
    /\ stream' = s
    /\ EnterCallWithRetry(PRIMARY, FALSE)
    /\ UNCHANGED << outcome, resp, streamState, chunks, requests, sleepCount,
                    failed, lastRequest, lastSeq, statuses >>

\* The record of the request sent in this step and of its answer.
Sent(kind, status, content) ==
    /\ requests' = [requests EXCEPT ![model] = @ + 1]
    /\ statuses' = statuses \cup {status}
    /\ lastRequest' = [kind |-> kind, status |-> status, content |-> content,
                       model |-> model, attempt |-> attempt, seq |-> seqNo]

\* The _call_with_retry invocation ends in this step.
SeqEnds(result, err) ==
    lastSeq' = [model |-> model, requests |-> seqRequests + 1, sleeps |-> sleeps,
                result |-> result, error |-> err, retry |-> retried]

\* ------------------------------------------------------------------------
\* complete(): except (RateLimitError, APIStatusError)
\* ------------------------------------------------------------------------
ModelExhausted_NoFallback(e, le) ==
    /\ SeqEnds("raised", e)
    /\ failed' = failed \cup {model}
    /\ pc' = "done"
    /\ outcome' = IF Caught(e) THEN "unavailable" ELSE "raised"
    /\ last_error' = le
    /\ UNCHANGED << model, retried, attempt, seqNo, seqRequests, sleeps >>

\* The error e left _call_with_retry, whose last_error was le: the
\* fallback's error becomes LLMUnavailableError, the primary's error moves on
\* to the next model; an error the clause does not name leaves complete()
\* as it is.
ModelExhausted(e, le) ==
    /\ SeqEnds("raised", e)
    /\ failed' = failed \cup {model}
    /\ IF ~Caught(e)
       THEN /\ pc' = "done"
            /\ outcome' = "raised"
            /\ last_error' = le
            /\ UNCHANGED << model, retried, attempt, seqNo, seqRequests, sleeps >>
       ELSE IF models[model].is_fallback
            THEN /\ pc' = "done"
                 /\ outcome' = "unavailable"
                 /\ last_error' = le
                 /\ UNCHANGED << model, retried, attempt, seqNo, seqRequests,
                                 sleeps >>
            ELSE /\ EnterCallWithRetry(model + 1, FALSE)
                 /\ UNCHANGED outcome

\* ------------------------------------------------------------------------
\* _call_with_retry: one request and the handling of its answer
\* ------------------------------------------------------------------------
\* A retryable failure of attempt `attempt`: sleep and go on, or, after the
\* last attempt, leave the loop and `raise last_error`.
RetryOrRaise(e) ==
    IF HasRetryLeft(attempt)
    THEN /\ sleeps' = Append(sleeps, Delay(attempt))
         /\ sleepCount' = sleepCount + 1
         /\ attempt' = attempt + 1
         /\ last_error' = e
         /\ seqRequests' = seqRequests + 1
         /\ UNCHANGED << pc, model, retried, outcome, seqNo, failed, lastSeq >>
    ELSE /\ ModelExhausted(e, e)
         /\ UNCHANGED sleepCount

\* create() raises RateLimitError.
CreateRateLimited ==
    /\ pc = "call"
    /\ Sent("rate_limit", RATE_LIMIT_STATUS, None)
    /\ RetryOrRaise(RateLimitError)
    /\ UNCHANGED << stream, resp, streamState, chunks >>

\* create() raises APIStatusError: retried only for a server error.
CreateStatusError(status) ==
    /\ pc = "call"
    /\ Sent("status", status, None)
    /\ IF IsServerError(status)
       THEN RetryOrRaise(APIStatusError(status))
       ELSE /\ ModelExhausted(APIStatusError(status), last_error)
            /\ UNCHANGED sleepCount
    /\ UNCHANGED << stream, resp, streamState, chunks >>

\* create() returns: in streaming mode the generator is handed out; an empty
\* text is asked again once; otherwise the LLMResponse is returned.
CreateReturns(content) ==
    /\ pc = "call"
    /\ Sent("ok", OK_STATUS, content)
    /\ SeqEnds("returned", NoError)
    /\ IF stream
       THEN /\ pc' = "streaming"
            /\ outcome' = "generator"
            /\ streamState' = "open"
            /\ UNCHANGED << model, retried, attempt, last_error, seqNo,
                            seqRequests, sleeps, resp >>
       ELSE IF IsEmptyText(OrEmpty(content)) /\ ~retried
            THEN /\ EnterCallWithRetry(model, TRUE)
                 /\ UNCHANGED << outcome, streamState, resp >>
            ELSE /\ pc' = "done"
                 /\ outcome' = "response"
                 /\ resp' = [text |-> OrEmpty(content),
                             model |-> models[model].name,
                             fallback_used |-> models[model].is_fallback]
                 /\ UNCHANGED << model, retried, attempt, last_error, seqNo,
                                 seqRequests, sleeps, streamState >>
    /\ UNCHANGED << stream, chunks, sleepCount, failed >>

\* ------------------------------------------------------------------------
\* _stream_response: the consumer pulls the generator
\* ------------------------------------------------------------------------
StreamChunk ==
    /\ pc = "streaming"
    /\ chunks < MaxChunks
    /\ chunks' = chunks + 1
    /\ UNCHANGED << pc, stream, model, attempt, retried, last_error, outcome,
                    resp, streamState, requests, seqNo, seqRequests, sleeps,
                    sleepCount, failed, lastRequest, lastSeq, statuses >>

StreamEnds ==
    /\ pc = "streaming"
    /\ pc' = "done"
    /\ streamState' = "ended"
    /\ UNCHANGED << stream, model, attempt, retried, last_error, outcome,
                    resp, chunks, requests, seqNo, seqRequests, sleeps,
                    sleepCount, failed, lastRequest, lastSeq, statuses >>

StreamFails_Restart ==
    /\ pc = "streaming"
    /\ EnterCallWithRetry(model, FALSE)
    /\ streamState' = "failed"
    /\ UNCHANGED << stream, outcome, resp, chunks, requests, sleepCount,
                    failed, lastRequest, lastSeq, statuses >>

\* The transport fails while the consumer iterates: the error is raised in
\* the consumer, outside complete().
StreamFails ==
    /\ pc = "streaming"
    /\ pc' = "done"
    /\ streamState' = "failed"
    /\ UNCHANGED << stream, model, attempt, retried, last_error, outcome,
                    resp, chunks, requests, seqNo, seqRequests, sleeps,
                    sleepCount, failed, lastRequest, lastSeq, statuses >>

NextLLM ==
    \/ \E s \in BOOLEAN : Complete(s)
    \/ CreateRateLimited
    \/ \E status \in StatusCodes : CreateStatusError(status)
    \/ \E content \in Contents : CreateReturns(content)
    \/ StreamChunk
    \/ StreamEnds
    \/ StreamFails

Next == NextLLM /\ UNCHANGED << ragVars, appVars >>

Spec == Init /\ [][Next]_vars

\* complete() is one thread of control: as long as a step is possible (the
\* API answers the request, time.sleep returns) the call goes on.
SpecLive == Init /\ [][Next]_vars /\ WF_vars(Next)

\* ------------------------------------------------------------------------
\* The notebook's collection (storage/vector_store.py)
\* ------------------------------------------------------------------------
Min(a, b) == IF a < b THEN a ELSE b

Max(a, b) == IF a > b THEN a ELSE b

\* the two sources the chunks of the collection come from
SourceOf(i) == IF i % 2 = 1 THEN "ai.txt" ELSE "lang.pdf"

\* chunk i is chunk number IndexOf(i) of its source
IndexOf(i) == (i - 1) \div 2

\* Metadata of chunk i: the key naming the source is "source_name" (the
\* vector-store contract rag.py reads) or "source" (what ingest_file and
\* ingest_url write).
ChunkMeta(i, key) ==
    [keys        |-> {key, "chunk_index"},
     source_name |-> IF key = "source_name" THEN SourceOf(i) ELSE "",
     source      |-> IF key = "source" THEN SourceOf(i) ELSE "",
     chunk_index |-> IndexOf(i)]

\* a collection of n chunks
Collection(n, key) ==
    [i \in 1..n |-> [text |-> "chunk " \o ToString(i), meta |-> ChunkMeta(i, key)]]

Collections ==
    {Collection(n, key) : n \in 0..MaxStore, key \in {"source_name", "source"}}

\* `not query_text or not query_text.strip()`
IsBlank(text) == text = "" \/ Strip(text) = ""

\* The order in which a query finds the chunks depends on the embedding of
\* its text: nearest first, one of these orders of the collection.
Orders == {"forward", "backward", "rotated"}

Permuted(order, n, j) ==
    CASE order = "forward"  -> j
      [] order = "backward" -> n + 1 - j
      [] order = "rotated"  -> (j % n) + 1

\* floats are fixed-point numbers over this denominator
SCALE == 10 ^ 5

\* Cosine distances of the j-th nearest chunk, nearest first:
\* 0.3, 0.6, 0.9, 1.2, ... or 0.12342, 0.23452, ...
DistanceProfiles == {"coarse", "fine"}

DistanceAt(profile, j) ==
    [num |-> IF profile = "coarse" THEN 30000 * j ELSE 12342 + 11110 * (j - 1),
     den |-> SCALE]

\* collection.query(query_texts=[text], n_results=actual_n)
CollectionQuery(order, profile, actual_n) ==
    [documents |-> [j \in 1..actual_n |->
                       store[Permuted(order, Len(store), j)].text],
     metadatas |-> [j \in 1..actual_n |->
                       store[Permuted(order, Len(store), j)].meta],
     distances |-> [j \in 1..actual_n |-> DistanceAt(profile, j)]]

\* query_collection(username, notebook_id, query_text, n_results): the
\* results it may return, or the exception it raises.
QueryCollection(query_text, n_results) ==
    IF IsBlank(query_text)
    THEN {[err |-> "ValueError", res |-> NoResults]}
    ELSE IF Len(store) = 0
         THEN {[err |-> "none", res |-> NoResults]}
         ELSE {[err |-> "none",
                res |-> CollectionQuery(order, profile,
                                        Min(n_results, Len(store)))] :
                  order \in Orders, profile \in DistanceProfiles}

\* ------------------------------------------------------------------------
\* llm_client.complete() as rag.py sees it
\* ------------------------------------------------------------------------
\* texts a model may answer with
LLMTexts ==
    {"", "ML is a subset of AI [1].", "7", "[1, 5, 3]", " [5] ",
     "[0, 9, 4, 4, 2, 1, 3]", "[\"Define ML\", \"\"]", "[\"\", \"Define ML\"]",
     "[\"Define ML\", \"Explain ML\", \"ML?\", \"Why ML?\"]"}

\* complete() returns an LLMResponse with one of the texts or raises
\* LLMUnavailableError.
LLMOutcomes ==
    {[err |-> "none", text |-> t] : t \in LLMTexts}
        \cup {[err |-> "LLMUnavailableError", text |-> ""]}

\* ------------------------------------------------------------------------
\* json.loads on the texts of the model
\* ------------------------------------------------------------------------
JInt(n) == [type |-> "int", int |-> n, str |-> ""]

JStr(t) == [type |-> "str", int |-> 0, str |-> t]

JList(items) == [type |-> "list", items |-> items]

JScalar(v) == [type |-> v.type, items |-> << v >>]

\* json.JSONDecodeError
JInvalid == [type |-> "invalid", items |-> << >>]

JsonLoads(text) ==
    CASE text = "7" -> JScalar(JInt(7))
      [] text = "[1, 5, 3]" -> JList(<< JInt(1), JInt(5), JInt(3) >>)
      [] text = "[5]" -> JList(<< JInt(5) >>)
      [] text = "[0, 9, 4, 4, 2, 1, 3]" ->
            JList(<< JInt(0), JInt(9), JInt(4), JInt(4), JInt(2), JInt(1),
                     JInt(3) >>)
      [] text = "[\"Define ML\", \"\"]" ->
            JList(<< JStr("Define ML"), JStr("") >>)
      [] text = "[\"\", \"Define ML\"]" ->
            JList(<< JStr(""), JStr("Define ML") >>)
      [] text = "[\"Define ML\", \"Explain ML\", \"ML?\", \"Why ML?\"]" ->
            JList(<< JStr("Define ML"), JStr("Explain ML"), JStr("ML?"),
                     JStr("Why ML?") >>)
      [] OTHER -> JInvalid

\* str.strip() on the texts a model answers with
StripText(text) == IF text = " [5] " THEN "[5]" ELSE Strip(text)

\* seq[:n]
Take(seq, n) == SubSeq(seq, 1, Min(Len(seq), n))

\* dict.get(key, default)
MetaGet(meta, key, default) == IF key \in meta.keys THEN meta[key] ELSE default

\* ------------------------------------------------------------------------
\* rag.py: _build_citations
\* ------------------------------------------------------------------------
RECURSIVE GCD(_, _)
GCD(a, b) == IF b = 0 THEN a ELSE GCD(b, a % b)

\* a / b for a >= 0, rounded to the nearest integer, a tie to the even one
RoundDiv(a, b) ==
    LET q == a \div b
        r == a % b
    IN  IF 2 * r > b \/ (2 * r = b /\ q % 2 = 1) THEN q + 1 ELSE q

\* round(x, 4), in units of 0.0001
Round4(x) ==
    LET g == GCD(10 ^ 4, x.den)
    IN  RoundDiv(x.num * ((10 ^ 4) \div g), x.den \div g)

\* max(0.0, 1.0 - dist)
Relevance(dist) == [num |-> Max(0, dist.den - dist.num), den |-> dist.den]

BuildCitations_DropLast(docs, metas, distances) ==
    [i \in 1..(Min(Len(docs), Min(Len(metas), Len(distances))) - 1) |->
        [source_name     |-> MetaGet(metas[i], "source_name", "unknown"),
         chunk_text      |-> docs[i],
         chunk_index     |-> MetaGet(metas[i], "chunk_index", 0),
         relevance_score |-> Round4(Relevance(distances[i]))]]

BuildCitations_Reversed(docs, metas, distances) ==
    LET n == Min(Len(docs), Min(Len(metas), Len(distances)))
    IN  [i \in 1..n |->
            [source_name     |-> MetaGet(metas[n + 1 - i], "source_name", "unknown"),
             chunk_text      |-> docs[n + 1 - i],
             chunk_index     |-> MetaGet(metas[n + 1 - i], "chunk_index", 0),
             relevance_score |-> Round4(Relevance(distances[n + 1 - i]))]]

\* one Citation per element of zip(docs, metas, distances);
\* relevance_score is in units of 0.0001
BuildCitations(docs, metas, distances) ==
    [i \in 1..Min(Len(docs), Min(Len(metas), Len(distances))) |->
        [source_name     |-> MetaGet(metas[i], "source_name", "unknown"),
         chunk_text      |-> docs[i],
         chunk_index     |-> MetaGet(metas[i], "chunk_index", 0),
         relevance_score |-> Round4(Relevance(distances[i]))]]

\* ------------------------------------------------------------------------
\* rag.py: _reranking_retrieve, after the answer of the model
\* ------------------------------------------------------------------------
Default3_Zero(n) == [i \in 1..n |-> JInt(0)]

\* [3] * n
Default3(n) == [i \in 1..n |-> JInt(3)]

RerankScores_NoPad(text, n) ==
    LET parsed == JsonLoads(StripText(text))
        scores == IF parsed.type = "list" THEN parsed.items ELSE Default3(n)
    IN  Take(scores, n)

\* lines 105-114: the score list, cut or padded to one entry per candidate
RerankScores(text, n) ==
    LET parsed == JsonLoads(StripText(text))
        scores == IF parsed.type = "list" THEN parsed.items ELSE Default3(n)
        cut    == Take(scores, n)
    IN  cut \o Default3(n - Len(cut))

SortedDesc_TiesReversed(key) ==
    LET n == Len(key)
        Pos(i) == 1 + Cardinality({j \in 1..n :
                        key[j] > key[i] \/ (key[j] = key[i] /\ j > i)})
    IN  [p \in 1..n |-> CHOOSE i \in 1..n : Pos(i) = p]

\* sorted(range(n), key=lambda i: key[i], reverse=True): a stable sort,
\* equal keys stay in their order
SortedDesc(key) ==
    LET n == Len(key)
        Pos(i) == 1 + Cardinality({j \in 1..n :
                        key[j] > key[i] \/ (key[j] = key[i] /\ j < i)})
    IN  [p \in 1..n |-> CHOOSE i \in 1..n : Pos(i) = p]

\* A score that is not a number makes the sort or the division
\* `scores[i] / 5.0` raise TypeError.
RerankRaises(scores) == \E i \in 1..Len(scores) : scores[i].type # "int"

\* lines 116-122
RerankResults(docs, metas, scores, top_k) ==
    LET ranked == Take(SortedDesc([i \in 1..Len(scores) |-> scores[i].int]),
                       top_k)
    IN  [documents |-> [p \in 1..Len(ranked) |-> docs[ranked[p]]],
         metadatas |-> [p \in 1..Len(ranked) |-> metas[ranked[p]]],
         distances |-> [p \in 1..Len(ranked) |->
                           [num |-> SCALE - scores[ranked[p]].int * (SCALE \div 5),
                            den |-> SCALE]]]

\* ------------------------------------------------------------------------
\* rag.py: _multi_query_retrieve
\* ------------------------------------------------------------------------
\* lines 137-144: [question] + variants[:MULTI_QUERY_VARIANTS]
AllQueries(q, text) ==
    LET parsed   == JsonLoads(StripText(text))
        variants == IF parsed.type = "list" THEN parsed.items ELSE << >>
    IN  << JStr(q) >> \o Take(variants, MULTI_QUERY_VARIANTS)

RECURSIVE LCMUpTo(_, _)
LCMUpTo(lo, hi) ==
    IF lo > hi THEN 1
    ELSE LET rest == LCMUpTo(lo + 1, hi)
         IN  (lo \div GCD(lo, rest)) * rest

\* the constant of reciprocal rank fusion: 1.0 / (rank + 60)
RRF_K == 60

\* fused scores are fractions over this denominator
RRF_DEN == LCMUpTo(RRF_K, RRF_K + TOP_K - 1)

\* f"{meta.get('source_name', '')}_{meta.get('chunk_index', 0)}"
ChunkId(meta) ==
    MetaGet(meta, "source_name", "") \o "_"
        \o ToString(MetaGet(meta, "chunk_index", 0))

\* position of chunk_id in doc_scores, 0 when absent
RECURSIVE IndexOfId(_, _, _)
IndexOfId(f, id, i) ==
    IF i > Len(f) THEN 0
    ELSE IF f[i].id = id THEN i ELSE IndexOfId(f, id, i + 1)

RECURSIVE Accumulate_NoSum(_, _, _, _)
Accumulate_NoSum(f, docs, metas, r) ==
    IF r >= Min(Len(docs), Len(metas)) THEN f
    ELSE LET id   == ChunkId(metas[r + 1])
             at   == IndexOfId(f, id, 1)
             term == RRF_DEN \div (r + RRF_K)
             f2   == IF at = 0
                     THEN Append(f, [id |-> id, score |-> term,
                                     doc |-> docs[r + 1], meta |-> metas[r + 1]])
                     ELSE f
         IN  Accumulate_NoSum(f2, docs, metas, r + 1)

\* lines 153-157 for the results of one query, from rank r on
RECURSIVE Accumulate(_, _, _, _)
Accumulate(f, docs, metas, r) ==
    IF r >= Min(Len(docs), Len(metas)) THEN f
    ELSE LET id   == ChunkId(metas[r + 1])
             at   == IndexOfId(f, id, 1)
             term == RRF_DEN \div (r + RRF_K)
             f2   == IF at = 0
                     THEN Append(f, [id |-> id, score |-> term,
                                     doc |-> docs[r + 1], meta |-> metas[r + 1]])
                     ELSE [f EXCEPT ![at].score = @ + term]
         IN  Accumulate(f2, docs, metas, r + 1)

\* lines 159-165
FusedResults(f, top_k) ==
    LET sorted_ids == Take(SortedDesc([i \in 1..Len(f) |-> f[i].score]), top_k)
    IN  [documents |-> [p \in 1..Len(sorted_ids) |-> f[sorted_ids[p]].doc],
         metadatas |-> [p \in 1..Len(sorted_ids) |-> f[sorted_ids[p]].meta],
         distances |-> [p \in 1..Len(sorted_ids) |->
                           [num |-> RRF_DEN - f[sorted_ids[p]].score,
                            den |-> RRF_DEN]]]

\* query_collection called with an element of the variant list: a value
\* that is not a string fails the blank test or has no strip().
QueryCollectionItem(item, n_results) ==
    IF item.type = "str" THEN QueryCollection(item.str, n_results)
    ELSE IF item.int = 0
         THEN {[err |-> "ValueError", res |-> NoResults]}
         ELSE {[err |-> "AttributeError", res |-> NoResults]}

\* ------------------------------------------------------------------------
\* rag.py: query() and the four strategies, one step per collaborator call
\* ------------------------------------------------------------------------
Questions == {"What is ML?", "  "}

\* techniques query() is called with
Techniques == TECHNIQUE_MAP \cup {"bogus"}

VSCall(item, n) == [kind |-> "vs", arg |-> item, n |-> n]

LLMCall(purpose) == [kind |-> "llm", arg |-> JStr(purpose), n |-> 0]

\* An exception leaves query().
Raise(name) ==
    /\ rpc' = "done"
    /\ raised' = name
    /\ UNCHANGED << results, response >>

AfterRetrieve_AlwaysAnswer(res) ==
    /\ results' = res
    /\ rpc' = "answer"
    /\ UNCHANGED << response, raised >>

\* query() lines 185-199: the strategy returned res; without passages the
\* fixed answer is returned at once.
AfterRetrieve(res) ==
    /\ results' = res
    /\ IF res.documents = << >>
       THEN /\ response' = [answer |-> NO_DOCUMENTS_ANSWER,
                            citations |-> << >>,
                            technique |-> technique,
                            chunks_considered |-> 0]
            /\ rpc' = "done"
            /\ UNCHANGED raised
       ELSE /\ rpc' = "answer"
            /\ UNCHANGED << response, raised >>

ResolveTechnique_DefaultHyde(t) ==
    IF t \notin TECHNIQUE_MAP THEN "hyde" ELSE t

\* query() lines 178-180: an unknown technique is replaced by "naive"
ResolveTechnique(t) == IF t \notin TECHNIQUE_MAP THEN "naive" ELSE t

Query_RerankScoresFirst(t, q) ==
    /\ rpc = "idle"
    /\ requested' = t
    /\ question' = q
    /\ technique' = ResolveTechnique(t)
    /\ rpc' = CASE technique' = "naive"       -> "naive_vs"
                [] technique' = "hyde"        -> "hyde_llm"
                [] technique' = "reranking"   -> "rerank_llm"
                [] technique' = "multi_query" -> "mq_llm"
    /\ UNCHANGED << store, hypothetical, initial, all_queries, qi, fused,
                    results, response, raised, calls, llm_text, retrieved,
                    unavailable >>

\* query() lines 178-183: the technique is resolved and its strategy entered.
Query(t, q) ==
    /\ rpc = "idle"
    /\ requested' = t
    /\ question' = q
    /\ technique' = ResolveTechnique(t)
    /\ rpc' = CASE technique' = "naive"       -> "naive_vs"
                [] technique' = "hyde"        -> "hyde_llm"
                [] technique' = "reranking"   -> "rerank_vs"
                [] technique' = "multi_query" -> "mq_llm"
    /\ UNCHANGED << store, hypothetical, initial, all_queries, qi, fused,
                    results, response, raised, calls, llm_text, retrieved,
                    unavailable >>

\* _naive_retrieve
NaiveRetrieve ==
    /\ rpc = "naive_vs"
    /\ calls' = Append(calls, VSCall(JStr(question), TOP_K))
    /\ \E r \in QueryCollection(question, TOP_K) :
          IF r.err # "none" THEN Raise(r.err) ELSE AfterRetrieve(r.res)
    /\ UNCHANGED << store, requested, technique, question, hypothetical,
                    initial, all_queries, qi, fused, llm_text, retrieved,
                    unavailable >>

HydeGenerate_QuestionOnError ==
    /\ rpc = "hyde_llm"
    /\ calls' = Append(calls, LLMCall("hyde"))
    /\ \E o \in LLMOutcomes :
          /\ hypothetical' = IF o.err # "none" THEN question ELSE o.text
          /\ unavailable' = IF o.err # "none" THEN "hyde" ELSE unavailable
          /\ rpc' = "hyde_vs"
          /\ UNCHANGED << results, response, raised >>
    /\ UNCHANGED << store, requested, technique, question, initial,
                    all_queries, qi, fused, llm_text, retrieved >>

\* _hyde_retrieve lines 63-72: the hypothetical answer
HydeGenerate ==
    /\ rpc = "hyde_llm"
    /\ calls' = Append(calls, LLMCall("hyde"))
    /\ \E o \in LLMOutcomes :
          IF o.err # "none"
          THEN Raise(o.err) /\ unavailable' = "hyde" /\ UNCHANGED hypothetical
          ELSE /\ hypothetical' = o.text
               /\ rpc' = "hyde_vs"
               /\ UNCHANGED << results, response, raised, unavailable >>
    /\ UNCHANGED << store, requested, technique, question, initial,
                    all_queries, qi, fused, llm_text, retrieved >>

\* _hyde_retrieve lines 73-75
HydeRetrieve ==
    /\ rpc = "hyde_vs"
    /\ calls' = Append(calls, VSCall(JStr(hypothetical), TOP_K))
    /\ \E r \in QueryCollection(hypothetical, TOP_K) :
          IF r.err # "none" THEN Raise(r.err) ELSE AfterRetrieve(r.res)
    /\ UNCHANGED << store, requested, technique, question, hypothetical,
                    initial, all_queries, qi, fused, llm_text, retrieved,
                    unavailable >>

\* _reranking_retrieve lines 80-88: the candidates
RerankCandidates ==
    /\ rpc = "rerank_vs"
    /\ calls' = Append(calls, VSCall(JStr(question), RERANK_CANDIDATES))
    /\ \E r \in QueryCollection(question, RERANK_CANDIDATES) :
          IF r.err # "none"
          THEN Raise(r.err) /\ UNCHANGED initial
          ELSE IF r.res.documents = << >>
               THEN AfterRetrieve(r.res) /\ UNCHANGED initial
               ELSE /\ initial' = r.res
                    /\ rpc' = "rerank_llm"
                    /\ UNCHANGED << results, response, raised >>
    /\ UNCHANGED << store, requested, technique, question, hypothetical,
                    all_queries, qi, fused, llm_text, retrieved, unavailable >>

\* _reranking_retrieve lines 90-122: the scores and the reordering
RerankScore ==
    /\ rpc = "rerank_llm"
    /\ calls' = Append(calls, LLMCall("rerank"))
    /\ \E o \in LLMOutcomes :
          IF o.err # "none"
          THEN Raise(o.err) /\ unavailable' = "rerank" /\ UNCHANGED llm_text
          ELSE LET scores == RerankScores(o.text, Len(initial.documents))
               IN  /\ llm_text' = o.text
                   /\ UNCHANGED unavailable
                   /\ IF RerankRaises(scores)
                      THEN Raise("TypeError")
                      ELSE AfterRetrieve(RerankResults(initial.documents,
                                             initial.metadatas, scores, TOP_K))
    /\ UNCHANGED << store, requested, technique, question, hypothetical,
                    initial, all_queries, qi, fused, retrieved >>

\* _multi_query_retrieve lines 127-147: the variants
MultiQueryVariants ==
    /\ rpc = "mq_llm"
    /\ calls' = Append(calls, LLMCall("variants"))
    /\ \E o \in LLMOutcomes :
          IF o.err # "none"
          THEN /\ Raise(o.err)
               /\ unavailable' = "variants"
               /\ UNCHANGED << all_queries, qi, llm_text >>
          ELSE /\ llm_text' = o.text
               /\ UNCHANGED unavailable
               /\ all_queries' = AllQueries(question, o.text)
               /\ qi' = 1
               /\ rpc' = "mq_vs"
               /\ UNCHANGED << results, response, raised >>
    /\ UNCHANGED << store, requested, technique, question, hypothetical,
                    initial, fused, retrieved >>

\* _multi_query_retrieve lines 149-165: one query of the loop; after the
\* last one the fused list is sorted and returned
MultiQueryRetrieve ==
    /\ rpc = "mq_vs"
    /\ calls' = Append(calls, VSCall(all_queries[qi], TOP_K))
    /\ \E r \in QueryCollectionItem(all_queries[qi], TOP_K) :
          IF r.err # "none"
          THEN Raise(r.err) /\ UNCHANGED << fused, qi, retrieved >>
          ELSE /\ fused' = Accumulate(fused, r.res.documents,
                                      r.res.metadatas, 0)
               /\ retrieved' = Append(retrieved,
                      [documents |-> r.res.documents,
                       metadatas |-> r.res.metadatas])
               /\ qi' = qi + 1
               /\ IF qi < Len(all_queries)
                  THEN UNCHANGED << rpc, results, response, raised >>
                  ELSE AfterRetrieve(FusedResults(fused', TOP_K))
    /\ UNCHANGED << store, requested, technique, question, hypothetical,
                    initial, all_queries, llm_text, unavailable >>

\* query() lines 201-211: the answer
Answer ==
    /\ rpc = "answer"
    /\ calls' = Append(calls, LLMCall("answer"))
    /\ \E o \in LLMOutcomes :
          IF o.err # "none"
          THEN Raise(o.err) /\ unavailable' = "answer"
          ELSE /\ response' = [answer |-> o.text,
                               citations |-> BuildCitations(results.documents,
                                   results.metadatas, results.distances),
                               technique |-> technique,
                               chunks_considered |-> Len(results.documents)]
               /\ rpc' = "done"
               /\ UNCHANGED << results, raised, unavailable >>
    /\ UNCHANGED << store, requested, technique, question, hypothetical,
                    initial, all_queries, qi, fused, llm_text, retrieved >>

\* State before query() is called, for each collection of the model.
InitRAG ==
    /\ InitLLM
    /\ RagIdle
    /\ store \in Collections
    /\ AppIdle

NextRAG ==
    /\ \/ \E t \in Techniques, q \in Questions : Query(t, q)
       \/ NaiveRetrieve
       \/ HydeGenerate
       \/ HydeRetrieve
       \/ RerankCandidates
       \/ RerankScore
       \/ MultiQueryVariants
       \/ MultiQueryRetrieve
       \/ Answer
    /\ UNCHANGED << llmVars, appVars >>

SpecRAG == InitRAG /\ [][NextRAG]_vars

\* ------------------------------------------------------------------------
\* app.py: on_chat and on_select_notebook; chat_store.py
\* ------------------------------------------------------------------------
\* what the user types
Messages == {"What is ML?", " Why? ", "  "}

\* message.strip()
StripMessage(m) == IF m = " Why? " THEN "Why?" ELSE Strip(m)

\* response.answer of a RAGResponse
Answers == {"ML is a subset of AI [1].", NO_DOCUMENTS_ANSWER, ""}

\* str(e) of an exception other than LLMUnavailableError leaving rag.query
ErrorTexts == {"query_text must not be blank.", "division by zero"}

\* the text shown for LLMUnavailableError (after its warning sign)
UNAVAILABLE_NOTICE ==
    "The LLM is currently unavailable. Please try again later."

\* f"Error: {e}" (after its warning sign)
ErrorNotice(e) == "Error: " \o e

\* {"role": role, "content": content} of the display list
Shown(role, content) == [role |-> role, content |-> content]

\* a line of messages.jsonl
Stored(role, content, rag_technique) ==
    [role |-> role, content |-> content, rag_technique |-> rag_technique]

\* _validate_message: the content must not be blank
ValidMessage(content) == ~IsBlank(content)

\* on_chat lines 403-423: the early returns; otherwise the user's message is
\* appended to the display list and to the store and rag.query is called.
OnChat(signedIn, m) ==
    /\ cpc = "idle"
    /\ turns < MaxTurns
    /\ turns' = turns + 1
    /\ chatRaised' = "none"
    /\ IF ~signedIn \/ IsBlank(m)
       THEN UNCHANGED << cpc, display, persisted, message, lastQuery >>
       ELSE /\ message' = StripMessage(m)
            /\ display' = Append(display, Shown("user", message'))
            /\ persisted' = Append(persisted, Stored("user", message', ""))
            /\ cpc' = "query"
            /\ lastQuery' = "none"

\* on_chat lines 425-446: rag.query returned; the answer is stored and
\* shown. append_message refuses a blank answer with ValueError, which the
\* clause `except Exception` turns into an error notice.
QueryReturns(answer, tech) ==
    /\ cpc = "query"
    /\ lastQuery' = "returned"
    /\ IF ValidMessage(answer)
       THEN /\ persisted' = Append(persisted, Stored("assistant", answer, tech))
            /\ display' = Append(display, Shown("assistant", answer))
       ELSE /\ display' = Append(display, Shown("assistant",
                ErrorNotice("message must include a non-empty 'content' field.")))
            /\ UNCHANGED persisted
    /\ cpc' = "idle"
    /\ UNCHANGED << message, turns, chatRaised >>

QueryUnavailable_Reraise ==
    /\ cpc = "query"
    /\ lastQuery' = "LLMUnavailableError"
    /\ chatRaised' = "LLMUnavailableError"
    /\ cpc' = "idle"
    /\ UNCHANGED << display, persisted, message, turns >>

\* on_chat lines 448-451: except LLMUnavailableError
QueryUnavailable ==
    /\ cpc = "query"
    /\ lastQuery' = "LLMUnavailableError"
    /\ display' = Append(display, Shown("assistant", UNAVAILABLE_NOTICE))
    /\ cpc' = "idle"
    /\ UNCHANGED << persisted, message, turns, chatRaised >>

\* on_chat lines 452-456: except Exception
QueryRaises(e) ==
    /\ cpc = "query"
    /\ lastQuery' = "Exception"
    /\ display' = Append(display, Shown("assistant", ErrorNotice(e)))
    /\ cpc' = "idle"
    /\ UNCHANGED << persisted, message, turns, chatRaised >>

\* on_select_notebook lines 264-286: the notebook is loaded again; the
\* display list is rebuilt from chat_store.get_history
SelectNotebook ==
    /\ cpc = "idle"
    /\ display' = [i \in 1..Len(persisted) |->
                      Shown(persisted[i].role, persisted[i].content)]
    /\ UNCHANGED << cpc, persisted, message, turns, chatRaised, lastQuery >>

InitChat ==
    /\ InitLLM
    /\ RagIdle
    /\ store = << >>
    /\ AppIdle

NextChat ==
    /\ \/ \E signedIn \in BOOLEAN, m \in Messages : OnChat(signedIn, m)
       \/ \E answer \in Answers, tech \in {"naive", "hyde"} :
             QueryReturns(answer, tech)
       \/ QueryUnavailable
       \/ \E e \in ErrorTexts : QueryRaises(e)
       \/ SelectNotebook
    /\ UNCHANGED << llmVars, ragVars, sumVars, clientVars, addVars >>

SpecChat == InitChat /\ [][NextChat]_vars

\* ------------------------------------------------------------------------
\* artifacts.py: _summarize_text
\* ------------------------------------------------------------------------
\* `if len(text) <= 2000: return text`
DIRECT_LIMIT == 2000

\* chunk_size
CHUNK_SIZE == 1500

\* chunk[:500]
EXCERPT_SIZE == 500

\* lengths of the texts summarized: around the limits, and texts of up to
\* MaxWindows chunks whose last chunk is full or not
TextLengths ==
    {0, CHUNK_SIZE, CHUNK_SIZE + 300, DIRECT_LIMIT, DIRECT_LIMIT + 1}
        \cup {CHUNK_SIZE * k : k \in 2..MaxWindows}
        \cup {CHUNK_SIZE * k - 1100 : k \in 2..MaxWindows}

\* response.text of a summarizing call
SummaryTexts == {"Key points.", ""}

\* text[a:b]
Slice(a, b) == [kind |-> "text", from |-> a, to |-> b, llm |-> ""]

\* a text of the model
Summary(t) == [kind |-> "summary", from |-> 0, to |-> 0, llm |-> t]

\* [text[i:i+chunk_size] for i in range(0, len(text), chunk_size)]
Chunks(n) ==
    [i \in 1..((n + CHUNK_SIZE - 1) \div CHUNK_SIZE) |->
        Slice((i - 1) * CHUNK_SIZE, Min(i * CHUNK_SIZE, n))]

\* chunk[:500]
Excerpt(chunk) ==
    Slice(chunk.from, Min(chunk.from + EXCERPT_SIZE, chunk.to))

\* "\n\n".join(chunk_summaries)
Joined(pieces) == [sep |-> "\n\n", pieces |-> pieces]

\* lines 64-72: a short text is returned as it is, a long one is split
SummarizeText(n) ==
    /\ spc = "idle"
    /\ text_len' = n
    /\ IF n <= DIRECT_LIMIT
       THEN /\ summary' = [sep |-> "", pieces |-> << Slice(0, n) >>]
            /\ spc' = "done"
            /\ UNCHANGED wi
       ELSE /\ spc' = "map"
            /\ wi' = 1
            /\ UNCHANGED summary
    /\ UNCHANGED << chunk_summaries, sumRaised, sumCalls, failedWindows >>

\* lines 75-89: the loop goes on with the next chunk, or the list is joined
\* and returned
NextWindow ==
    IF wi < Len(Chunks(text_len))
    THEN wi' = wi + 1 /\ UNCHANGED << spc, summary >>
    ELSE /\ spc' = "done"
         /\ summary' = Joined(chunk_summaries')
         /\ UNCHANGED wi

\* lines 77-83: the model summarizes the chunk
WindowSummarized(t) ==
    /\ spc = "map"
    /\ sumCalls' = sumCalls + 1
    /\ chunk_summaries' = Append(chunk_summaries, Summary(t))
    /\ NextWindow
    /\ UNCHANGED << text_len, sumRaised, failedWindows >>

WindowFails_Abort ==
    /\ spc = "map"
    /\ sumCalls' = sumCalls + 1
    /\ failedWindows' = failedWindows \cup {wi}
    /\ sumRaised' = "LLMUnavailableError"
    /\ spc' = "done"
    /\ UNCHANGED << text_len, wi, chunk_summaries, summary >>

\* lines 84-86: the call raises; the head of the chunk stands in
WindowFails ==
    /\ spc = "map"
    /\ sumCalls' = sumCalls + 1
    /\ failedWindows' = failedWindows \cup {wi}
    /\ chunk_summaries' = Append(chunk_summaries, Excerpt(Chunks(text_len)[wi]))
    /\ NextWindow
    /\ UNCHANGED << text_len, sumRaised >>

InitSum ==
    /\ InitLLM
    /\ RagIdle
    /\ store = << >>
    /\ AppIdle

NextSum ==
    /\ \/ \E n \in TextLengths : SummarizeText(n)
       \/ \E t \in SummaryTexts : WindowSummarized(t)
       \/ WindowFails
    /\ UNCHANGED << llmVars, ragVars, chatVars, clientVars, addVars >>

SpecSum == InitSum /\ [][NextSum]_vars

\* ------------------------------------------------------------------------
\* _get_client of core/llm_client.py (lines 31-39) and of
\* storage/vector_store.py (lines 44-52), run by concurrent requests.
\* Neither function takes a lock: a thread can be preempted between the
\* test, the constructor call, the assignment and the return.
\* ------------------------------------------------------------------------
\* `_client is None` / `key not in _clients`
Missing(h) == IF h = "groq" THEN client = NoClient ELSE h \notin DOMAIN clients

\* `_client` / `_clients[key]`
Current(h) == IF h = "groq" THEN client ELSE clients[h]

\* a request's thread enters _get_client for handle h
GetClient(t, h) ==
    /\ tpc[t] = "idle"
    /\ tpc' = [tpc EXCEPT ![t] = "check"]
    /\ target' = [target EXCEPT ![t] = h]
    /\ UNCHANGED << client, clients, made, got, constructions >>

\* the test finds no client
CheckMissing(t) ==
    /\ tpc[t] = "check"
    /\ Missing(target[t])
    /\ tpc' = [tpc EXCEPT ![t] = "construct"]
    /\ UNCHANGED << client, clients, target, made, got, constructions >>

\* the test finds the client
CheckPresent(t) ==
    /\ tpc[t] = "check"
    /\ ~Missing(target[t])
    /\ tpc' = [tpc EXCEPT ![t] = "return"]
    /\ UNCHANGED << client, clients, target, made, got, constructions >>

\* Groq(api_key=...) / chromadb.PersistentClient(path=...) returns an object
Construct(t) ==
    /\ tpc[t] = "construct"
    /\ constructions' =
          [constructions EXCEPT ![target[t]] = constructions[target[t]] + 1]
    /\ made' = [made EXCEPT
                  ![t] = ClientObject(target[t], constructions[target[t]] + 1)]
    /\ tpc' = [tpc EXCEPT ![t] = "assign"]
    /\ UNCHANGED << client, clients, target, got >>

\* `_client = ...` / `_clients[key] = ...`
Assign(t) ==
    /\ tpc[t] = "assign"
    /\ IF target[t] = "groq"
       THEN /\ client' = made[t]
            /\ UNCHANGED clients
       ELSE /\ clients' = [k \in DOMAIN clients \cup {target[t]} |->
                              IF k = target[t] THEN made[t] ELSE clients[k]]
            /\ UNCHANGED client
    /\ tpc' = [tpc EXCEPT ![t] = "return"]
    /\ UNCHANGED << target, made, got, constructions >>

\* `return _client` / `return _clients[key]`
Return(t) ==
    /\ tpc[t] = "return"
    /\ got' = [got EXCEPT ![t] = Current(target[t])]
    /\ tpc' = [tpc EXCEPT ![t] = "done"]
    /\ UNCHANGED << client, clients, target, made, constructions >>

InitClient ==
    /\ InitLLM
    /\ RagIdle
    /\ store = << >>
    /\ AppIdle

NextClient ==
    /\ \E t \in Threads :
          \/ \E h \in Handles : GetClient(t, h)
          \/ CheckMissing(t)
          \/ CheckPresent(t)
          \/ Construct(t)
          \/ Assign(t)
          \/ Return(t)
    /\ UNCHANGED << llmVars, ragVars, chatVars, sumVars, addVars >>

SpecClient == InitClient /\ [][NextClient]_vars

\* ------------------------------------------------------------------------
\* add_documents (storage/vector_store.py, lines 107-148) on one notebook's
\* collection
\* ------------------------------------------------------------------------
\* texts of chunks
Documents == {"Hello world", "Goodbye world"}

\* a key a metadata dict does not have
Absent == "<absent>"

\* metadata dicts: what ingestion writes ("source") and what the tests of
\* the vector store write ("source_name")
Metadatas ==
    {[source |-> "notes.txt", source_name |-> Absent],
     [source |-> Absent, source_name |-> "test.txt"]}

SeqsUpTo(S, n) == UNION {[1..k -> S] : k \in 0..n}

\* the arguments of a call: two lists of the same length, or lists of
\* "Hello world" chunks and "notes.txt" metadatas of any two lengths
AddArgs ==
    {args \in [chunks : SeqsUpTo(Documents, MaxBatch),
               metadatas : SeqsUpTo(Metadatas, MaxBatch)] :
        \/ Len(args.chunks) = Len(args.metadatas)
        \/ /\ \A p \in 1..Len(args.chunks) : args.chunks[p] = "Hello world"
           /\ \A p \in 1..Len(args.metadatas) :
                 args.metadatas[p].source = "notes.txt"}

\* _chunk_id, lines 65-73: the digest of f"{source}::{index}"; distinct
\* strings have distinct digests
StoreChunkId(source, index) == "sha256(" \o source \o "::" \o ToString(index) \o ")"

\* `metadatas[i].get("source", str(i))`, i counted from 0
SourceKey(meta, i) == IF meta.source # Absent THEN meta.source ELSE ToString(i)

\* lines 139-142: the id of each position of the call
ChunkIds(metadatas) ==
    [p \in 1..Len(metadatas) |-> StoreChunkId(SourceKey(metadatas[p], p - 1), p - 1)]

\* a collection.upsert that removes the ids it finds instead of replacing
\* their entries
Upsert_Toggle(coll, ids, documents, metadatas) ==
    LET given == {ids[p] : p \in 1..Len(ids)}
        kept == (DOMAIN coll \ given) \cup (given \ DOMAIN coll)
    IN  [k \in kept |->
            IF k \in given
            THEN LET p == CHOOSE q \in 1..Len(ids) : ids[q] = k
                 IN  [document |-> documents[p], metadata |-> metadatas[p]]
            ELSE coll[k]]

\* collection.upsert(documents, metadatas, ids), lines 144-148: the entry of
\* each id given is created or replaced, the others stay
Upsert(coll, ids, documents, metadatas) ==
    LET given == {ids[p] : p \in 1..Len(ids)}
    IN  [k \in DOMAIN coll \cup given |->
            IF k \in given
            THEN LET p == CHOOSE q \in 1..Len(ids) : ids[q] = k
                 IN  [document |-> documents[p], metadata |-> metadatas[p]]
            ELSE coll[k]]

\* one add_documents call
AddDocuments(args) ==
    /\ addCalls < MaxAdds
    /\ addCalls' = addCalls + 1
    /\ lastArgs' = args
    /\ repeated' = (addCalls > 0 /\ args = lastArgs)
    /\ IF args.chunks = << >> \/ Len(args.chunks) # Len(args.metadatas)
       THEN \* lines 130-135
            /\ addRaised' = "ValueError"
            /\ UNCHANGED collection
       ELSE /\ addRaised' = "none"
            /\ collection' = Upsert(collection, ChunkIds(args.metadatas),
                                    args.chunks, args.metadatas)

\* what the persistent collection holds when the process starts: nothing,
\* or the chunks of earlier add_documents calls
StoredCollections ==
    {<< >>}
        \cup {LET metadatas == [p \in 1..2 |-> meta]
              IN  Upsert(<< >>, ChunkIds(metadatas),
                         << "Goodbye world", "Hello world" >>, metadatas) :
              meta \in Metadatas}

InitAdd ==
    /\ InitLLM
    /\ RagIdle
    /\ store = << >>
    /\ ChatIdle
    /\ SumIdle
    /\ ClientIdle
    /\ collection \in StoredCollections
    /\ lastArgs = NoArgs
    /\ repeated = FALSE
    /\ addRaised = "none"
    /\ addCalls = 0

NextAdd ==
    /\ \E args \in AddArgs : AddDocuments(args)
    /\ UNCHANGED << llmVars, ragVars, chatVars, sumVars, clientVars >>

SpecAdd == InitAdd /\ [][NextAdd]_vars



\* ------------------------------------------------------------------------
\* Properties of complete()  (checked under Spec)
\* ------------------------------------------------------------------------
\* a request is sent in this step
RequestStep == requests' # requests

TotalRequests == requests[PRIMARY] + requests[FALLBACK]

RetryableStatus(status) == status = RATE_LIMIT_STATUS \/ status >= 500

\* C1: requests go to the primary model first; a request goes to the
\* fallback model only after the primary's attempt sequence has ended in an
\* error, and no request goes to the primary after the first one to the
\* fallback.
C1_PrimaryBeforeFallback ==
    [][ /\ (requests'[FALLBACK] > requests[FALLBACK]) =>
              /\ PRIMARY \in failed
              /\ requests[PRIMARY] >= 1
              /\ (requests[FALLBACK] = 0 =>
                     lastSeq.model = PRIMARY /\ lastSeq.result = "raised")
        /\ (requests'[PRIMARY] > requests[PRIMARY]) => requests[FALLBACK] = 0
      ]_vars

C1_Witness ==
    /\ requests[FALLBACK] >= 2
    /\ requests[PRIMARY] = LLM_MAX_RETRIES + 1

\* C2: one _call_with_retry goes on to another attempt only after a
\* rate-limit answer or a server error (status >= 500) and at most
\* LLM_MAX_RETRIES times; failing every attempt it has sent exactly
\* LLM_MAX_RETRIES + 1 requests and raises the last error; a successful
\* answer ends it at once.
C2_RetryOnlyTransient ==
    /\ [](pc = "call" => seqRequests <= LLM_MAX_RETRIES /\ seqRequests = attempt)
    /\ []((lastSeq.result = "raised" /\ RetryableStatus(lastSeq.error.status))
             => lastSeq.requests = LLM_MAX_RETRIES + 1)
    /\ [][ /\ (RequestStep /\ seqNo' = seqNo /\ pc' = "call") =>
                 /\ RetryableStatus(lastRequest'.status)
                 /\ lastRequest'.attempt < LLM_MAX_RETRIES
                 /\ seqRequests' = seqRequests + 1
           /\ (RequestStep /\ lastRequest'.kind = "ok") =>
                 /\ lastSeq'.result = "returned"
                 /\ lastSeq'.requests = seqRequests + 1
                 /\ (seqNo' # seqNo \/ pc' # "call")
           /\ (lastSeq' # lastSeq /\ lastSeq'.result = "raised") =>
                 /\ lastSeq'.error.status = lastRequest'.status
                 /\ lastSeq'.error.kind = lastRequest'.kind
         ]_vars

C2_Witness ==
    /\ lastSeq.result = "raised"
    /\ lastSeq.error = APIStatusError(503)
    /\ lastSeq.requests = LLM_MAX_RETRIES + 1

\* C3: when every request of a non-streaming call is answered by a
\* rate-limit or a server error, the call ends after exactly
\* 2 * (LLM_MAX_RETRIES + 1) requests, in LLMUnavailableError, and there is
\* no LLMResponse.
C3_BothExhausted ==
    (~stream /\ pc # "idle" /\ \A st \in statuses : RetryableStatus(st)) =>
        /\ resp = NoResponse
        /\ outcome \in {"none", "unavailable"}
        /\ (pc = "done") <=> (outcome = "unavailable")
        /\ (pc = "done") <=> (TotalRequests = 2 * (LLM_MAX_RETRIES + 1))
        /\ TotalRequests <= 2 * (LLM_MAX_RETRIES + 1)

C3_Witness ==
    /\ ~stream
    /\ outcome = "unavailable"
    /\ \A st \in statuses : RetryableStatus(st)
    /\ TotalRequests = 2 * (LLM_MAX_RETRIES + 1)

\* C4: the LLMResponse has fallback_used = FALSE exactly when the answer it
\* carries came from the primary model and TRUE exactly when it came from
\* the fallback; a primary that succeeds before its attempts run out gives
\* FALSE and no request to the fallback, a primary that ran out followed by
\* a succeeding fallback gives TRUE.
C4_FallbackUsed ==
    outcome = "response" =>
        /\ lastRequest.kind = "ok"
        /\ resp.fallback_used <=> (lastRequest.model = FALLBACK)
        /\ ~resp.fallback_used <=> (lastRequest.model = PRIMARY)
        /\ resp.fallback_used <=> (resp.model = LLM_FALLBACK_MODEL)
        /\ (PRIMARY \notin failed) =>
              (~resp.fallback_used /\ requests[FALLBACK] = 0)
        /\ (PRIMARY \in failed) => resp.fallback_used

C4_Witness ==
    /\ outcome = "response"
    /\ resp.fallback_used
    /\ statuses = {RATE_LIMIT_STATUS, OK_STATUS}
    /\ requests[PRIMARY] = LLM_MAX_RETRIES + 1

\* the API answered with a client error (status < 500, not a rate limit)
IsClientError(r) == r.kind = "status" /\ r.status < 500

\* C5: a client error is not retried: after one from the primary there is
\* no sleep and no further request to the primary, the call goes on and the
\* fallback is tried next; after one from the fallback the call ends in an
\* error with no further request.
C5_ClientErrorNotRetried ==
    [][ /\ (RequestStep /\ IsClientError(lastRequest')) =>
              /\ sleepCount' = sleepCount
              /\ IF model = PRIMARY
                 THEN /\ pc' = "call"
                      /\ model' = FALLBACK
                      /\ outcome' = "none"
                      /\ seqRequests' = 0
                 ELSE /\ pc' = "done"
                      /\ outcome' = "unavailable"
        /\ (PRIMARY \in failed) => requests'[PRIMARY] = requests[PRIMARY]
        /\ (pc = "done") => requests' = requests
      ]_vars

C5_Witness ==
    /\ IsClientError(lastRequest)
    /\ lastRequest.model = PRIMARY
    /\ lastRequest.attempt = 1
    /\ model = FALLBACK
    /\ pc = "call"

\* the content of an answer is empty or only white space
BlankContent(content) == content \in {None, "", "  "}

\* C6 as claimed: after an empty text exactly one more request goes to the
\* same model, without any sleep, and its answer is accepted.
C6_OneMoreRequest ==
    /\ (retried /\ pc = "call") => (seqRequests = 0 /\ sleeps = << >>)
    /\ lastSeq.retry => (lastSeq.requests = 1 /\ lastSeq.result = "returned")

\* C6: after an empty text of a non-streaming answer, complete() starts
\* exactly one more attempt sequence on the same model, with no sleep before
\* its first request; the first answer that sequence gets without error is
\* accepted whatever its text; the model is left only through an error.
C6_EmptyRetriedOnce ==
    /\ [](model = PRIMARY => seqNo <= 2)
    /\ [](seqNo <= 4)
    /\ [](retried => ~stream)
    /\ [][ /\ (RequestStep /\ lastRequest'.kind = "ok" /\ ~stream /\ ~retried
                 /\ BlankContent(lastRequest'.content)) =>
                 /\ pc' = "call"
                 /\ retried'
                 /\ model' = model
                 /\ seqNo' = seqNo + 1
                 /\ seqRequests' = 0
                 /\ sleepCount' = sleepCount
                 /\ outcome' = "none"
           /\ (RequestStep /\ lastRequest'.kind = "ok" /\ retried) =>
                 /\ pc' = "done"
                 /\ outcome' = "response"
                 /\ resp'.model = models[model].name
                 /\ resp'.text = IF lastRequest'.content = None
                                 THEN "" ELSE lastRequest'.content
           /\ (RequestStep /\ model' # model) => lastRequest'.kind # "ok"
           /\ (retried /\ ~retried') => lastRequest'.kind # "ok"
         ]_vars

C6_Witness ==
    /\ outcome = "response"
    /\ lastSeq.retry
    /\ lastSeq.requests = 3
    /\ resp.text = "  "

\* C7 as claimed: a streaming call sends one request, to the primary model,
\* and never sleeps.
C7_SingleRequest ==
    stream => (TotalRequests <= 1 /\ requests[FALLBACK] = 0 /\ sleepCount = 0)

\* C7: in streaming mode the request that opens the stream is retried and
\* falls back like any other; once the stream is handed out there is no
\* further request, sleep or empty-text retry, and a failure of the stream
\* reaches the consumer as it is.
C7_NoRetryOnceStreaming ==
    /\ [](pc = "streaming" => (stream /\ outcome = "generator"))
    /\ []((stream /\ lastRequest.kind = "ok") =>
             (pc \in {"streaming", "done"} /\ outcome = "generator"
              /\ ~retried /\ resp = NoResponse))
    /\ [](streamState = "failed" => (pc = "done" /\ outcome = "generator"))
    /\ [][ (pc = "streaming") =>
               /\ requests' = requests
               /\ sleepCount' = sleepCount
               /\ seqNo' = seqNo
               /\ outcome' = outcome
               /\ pc' \in {"streaming", "done"}
         ]_vars

C7_Witness ==
    /\ streamState = "failed"
    /\ chunks = 1
    /\ requests[FALLBACK] = 2
    /\ sleepCount >= 1

\* C8: whatever the API answers, a non-streaming call ends by returning an
\* LLMResponse or by raising LLMUnavailableError, never with the API's own
\* error.
C8_ResponseOrUnavailable ==
    (~stream /\ pc = "done") =>
        /\ outcome \in {"response", "unavailable"}
        /\ (outcome = "response") <=> (resp # NoResponse)
        /\ (outcome = "unavailable") <=> (FALLBACK \in failed)

C8_Witness ==
    /\ ~stream
    /\ pc = "done"
    /\ outcome = "unavailable"
    /\ IsClientError(lastRequest)
    /\ 500 \in statuses

\* C9: the sleep after failed attempt k of one attempt sequence lasts
\* LLM_RETRY_BASE_DELAY * 2^k, there is none after attempt LLM_MAX_RETRIES,
\* and none is longer than LLM_RETRY_BASE_DELAY * 2^(LLM_MAX_RETRIES - 1).
C9_BackoffDelays ==
    /\ [](/\ Len(sleeps) <= LLM_MAX_RETRIES
          /\ \A i \in 1..Len(sleeps) :
                /\ sleeps[i] = LLM_RETRY_BASE_DELAY * 2 ^ (i - 1)
                /\ sleeps[i] <= LLM_RETRY_BASE_DELAY * 2 ^ (LLM_MAX_RETRIES - 1)
          /\ (pc = "call" => Len(sleeps) = attempt))
    /\ []((lastSeq.result = "raised" /\ RetryableStatus(lastSeq.error.status))
             => (Len(lastSeq.sleeps) = LLM_MAX_RETRIES
                 /\ lastSeq.requests = Len(lastSeq.sleeps) + 1))
    /\ [][ (sleepCount' # sleepCount) =>
               /\ RequestStep
               /\ RetryableStatus(lastRequest'.status)
               /\ lastRequest'.attempt < LLM_MAX_RETRIES
               /\ sleepCount' = sleepCount + 1
               /\ sleeps' = Append(sleeps,
                      LLM_RETRY_BASE_DELAY * 2 ^ lastRequest'.attempt)
         ]_vars

C9_Witness ==
    /\ sleeps = << 1, 2, 4 >>
    /\ lastSeq.result = "raised"
    /\ Len(lastSeq.sleeps) = LLM_MAX_RETRIES

\* ------------------------------------------------------------------------
\* Properties of query()  (checked under SpecRAG)
\* ------------------------------------------------------------------------
\* calls of llm_client.complete() made so far by this query()
LLMCallCount == Cardinality({i \in 1..Len(calls) : calls[i].kind = "llm"})

\* calls of vector_store.query_collection() made so far by this query()
VSCallCount == Cardinality({i \in 1..Len(calls) : calls[i].kind = "vs"})

\* query() has returned a RAGResponse
Returned == rpc = "done" /\ raised = "none"

EmptyStoreResponse ==
    [answer |-> "No documents have been added to this notebook yet.",
     citations |-> << >>, technique |-> technique, chunks_considered |-> 0]

\* C10 as claimed: when the vector store returns no passage, query()
\* returns the fixed answer with no citation and llm_client.complete() was
\* not called, whatever the technique.
C10_NoLLMCallOnEmptyStore ==
    (Returned /\ Len(store) = 0) =>
        (response = EmptyStoreResponse /\ LLMCallCount = 0)

\* C10: with an empty store the answer call is never made; naive and
\* reranking call the model not at all, hyde and multi_query call it once,
\* before their first query of the store; and when query() returns, it
\* returns the fixed answer, no citation and chunks_considered = 0.
C10_EmptyStore ==
    Len(store) = 0 =>
        /\ \A i \in 1..Len(calls) : calls[i] # LLMCall("answer")
        /\ rpc # "answer"
        /\ technique \in {"naive", "reranking"} => LLMCallCount = 0
        /\ technique \in {"hyde", "multi_query"} =>
              /\ LLMCallCount <= 1
              /\ (VSCallCount >= 1 => (calls[1].kind = "llm" /\ LLMCallCount = 1))
        /\ Returned =>
              /\ response = EmptyStoreResponse
              /\ VSCallCount >= 1
              /\ calls[Len(calls)].kind = "vs"

C10_Witness ==
    /\ Returned
    /\ Len(store) = 0
    /\ technique = "multi_query"
    /\ LLMCallCount = 1
    /\ VSCallCount = 4
    /\ response.citations = << >>
    /\ response.chunks_considered = 0

\* ------------------------------------------------------------------------
\* Claims about the RAGResponse and its citations
\* ------------------------------------------------------------------------
\* C11: every RAGResponse returned by query() has chunks_considered equal
\* to the number of its citations, and both are 0 exactly when the strategy
\* returned no passage.
C11_ChunksConsidered ==
    Returned =>
        /\ response.chunks_considered = Len(response.citations)
        /\ (response.chunks_considered = 0) <=> (results.documents = << >>)
        /\ (Len(response.citations) = 0) <=> (results.documents = << >>)

C11_Witness ==
    /\ Returned
    /\ technique = "multi_query"
    /\ Len(results.documents) = 3
    /\ response.chunks_considered = 3
    /\ Len(response.citations) = 3

\* relevance_score 1.0, in the units of Round4
ONE == 10 ^ 4

\* C12 as claimed: every Citation of every RAGResponse returned by query()
\* has 0 <= relevance_score <= 1, for every technique and every text the
\* model may return during retrieval.
C12_RelevanceInUnitInterval ==
    Returned =>
        \A i \in 1..Len(response.citations) :
            /\ 0 <= response.citations[i].relevance_score
            /\ response.citations[i].relevance_score <= ONE

\* clamp(1 - dist, 0, 1)
Clamp01(dist) ==
    [num |-> Min(dist.den, Max(0, dist.den - dist.num)), den |-> dist.den]

\* C13 as claimed: each citation's relevance_score is
\* clamp(1 - distance, 0, 1) of its passage, rounded to 4 decimal places;
\* distances 0.3, 0.6, 0.9 give 0.7, 0.4, 0.1 and a distance above 1
\* gives 0.0.
C13_RelevanceIsClamped ==
    Returned =>
        /\ Len(response.citations) = Len(results.distances)
        /\ \A i \in 1..Len(response.citations) :
              /\ response.citations[i].relevance_score =
                    Round4(Clamp01(results.distances[i]))
              /\ results.distances[i] = [num |-> 30000, den |-> SCALE] =>
                    response.citations[i].relevance_score = 7000
              /\ results.distances[i] = [num |-> 60000, den |-> SCALE] =>
                    response.citations[i].relevance_score = 4000
              /\ results.distances[i] = [num |-> 90000, den |-> SCALE] =>
                    response.citations[i].relevance_score = 1000
              /\ results.distances[i].num > results.distances[i].den =>
                    response.citations[i].relevance_score = 0

\* C14: the citations follow the passages the strategy returned, one for
\* one and in their order: citation i has the text of passage i, the
\* chunk_index and the source_name of its metadata ("unknown" and 0 when the
\* metadata lacks the key); nothing is dropped or merged, so passages of one
\* source give one citation each.
C14_CitationOrder ==
    Returned =>
        /\ Len(response.citations) = Len(results.documents)
        /\ \A i \in 1..Len(response.citations) :
              LET c    == response.citations[i]
                  meta == results.metadatas[i]
              IN  /\ c.chunk_text = results.documents[i]
                  /\ c.chunk_index = IF "chunk_index" \in meta.keys
                                     THEN meta.chunk_index ELSE 0
                  /\ c.source_name = IF "source_name" \in meta.keys
                                     THEN meta.source_name ELSE "unknown"

C14_Witness ==
    /\ Returned
    /\ Len(response.citations) = 3
    /\ response.citations[1].source_name = "ai.txt"
    /\ response.citations[3].source_name = "ai.txt"
    /\ response.citations[1].chunk_text = "chunk 3"
    /\ response.citations[2].chunk_text = "chunk 2"
    /\ response.citations[3].chunk_text = "chunk 1"
    /\ results.documents = << "chunk 3", "chunk 2", "chunk 1" >>

\* ------------------------------------------------------------------------
\* Claims about reranking
\* ------------------------------------------------------------------------
\* _reranking_retrieve has returned its reordered candidates to query()
Reranked ==
    /\ technique = "reranking"
    /\ rpc \in {"answer", "done"}
    /\ raised = "none"
    /\ initial.documents # << >>

\* the candidate (its position in the retrieval order) that is result p
CandidateOf(p) ==
    CHOOSE i \in 1..Len(initial.documents) :
        initial.documents[i] = results.documents[p]

\* the score the model's text gives candidate i
ScoreOf(i) == RerankScores(llm_text, Len(initial.documents))[i].int

\* candidate i is ranked before candidate j: a higher score, or the same
\* score and earlier in the retrieval order
RankedBefore(i, j) ==
    ScoreOf(i) > ScoreOf(j) \/ (ScoreOf(i) = ScoreOf(j) /\ i < j)

\* C15: reranking returns candidates in descending order of their score,
\* candidates of equal score in their retrieval order, and only the top_k
\* first of that order; with 3 candidates scored [1, 5, 3] the first result
\* and the first citation are the candidate scored 5.
C15_StableDescendingTopK ==
    Reranked =>
        LET n == Len(initial.documents)
            k == Len(results.documents)
            kept == {CandidateOf(p) : p \in 1..k}
        IN  /\ k = Min(TOP_K, n)
            /\ \A p \in 1..k :
                  \E i \in 1..n : initial.documents[i] = results.documents[p]
            /\ \A p, q \in 1..k :
                  p < q => RankedBefore(CandidateOf(p), CandidateOf(q))
            /\ \A i \in (1..n) \ kept :
                  \A j \in kept : RankedBefore(j, i)
            /\ (n = 3 /\ llm_text = "[1, 5, 3]") =>
                  /\ results.documents[1] = initial.documents[2]
                  /\ Returned =>
                        response.citations[1].chunk_text = initial.documents[2]

C15_Witness ==
    /\ Reranked
    /\ Returned
    /\ llm_text = "[0, 9, 4, 4, 2, 1, 3]"
    /\ Len(initial.documents) = 6
    /\ Len(results.documents) = TOP_K
    /\ results.documents[1] = initial.documents[2]
    /\ results.documents[2] = initial.documents[3]
    /\ results.documents[3] = initial.documents[4]
    /\ response.citations[5].chunk_text = initial.documents[6]
    /\ \A p \in 1..TOP_K : results.documents[p] # initial.documents[1]

\* the rerank-scoring call of the model has returned a text (llm_text)
RerankAnswered ==
    /\ technique = "reranking"
    /\ initial.documents # << >>
    /\ rpc \in {"answer", "done"}
    /\ raised = "LLMUnavailableError" => LLMCallCount = 2

\* what json.loads makes of the text of the model
ParsedText == JsonLoads(StripText(llm_text))

\* the text is a JSON list of numbers, fewer than there are candidates
ShortScoreList ==
    /\ ParsedText.type = "list"
    /\ Len(ParsedText.items) < Len(initial.documents)
    /\ \A i \in 1..Len(ParsedText.items) : ParsedText.items[i].type = "int"

\* C16 as claimed: when the score text fails to parse or its array is
\* shorter than the candidate count, reranking raises nothing and returns
\* exactly top_k results.
C16_ExactlyTopK ==
    (/\ RerankAnswered
     /\ \/ ParsedText.type = "invalid"
        \/ (ParsedText.type = "list"
               /\ Len(ParsedText.items) < Len(initial.documents))) =>
        /\ raised # "TypeError"
        /\ Len(results.documents) = TOP_K

\* C16: when the score text fails to parse, is not a JSON list, or is a
\* list of numbers shorter than the candidate count, reranking raises
\* nothing and returns min(top_k, number of candidates) results: top_k
\* when the store gave at least top_k candidates, all candidates otherwise.
\* Without a usable list every candidate has score 3, so the results are the
\* first candidates in retrieval order, each at distance 1 - 3/5.
C16_MalformedScores ==
    (RerankAnswered /\ (ParsedText.type # "list" \/ ShortScoreList)) =>
        /\ raised # "TypeError"
        /\ Len(results.documents) = Min(TOP_K, Len(initial.documents))
        /\ Len(initial.documents) >= TOP_K => Len(results.documents) = TOP_K
        /\ ParsedText.type # "list" =>
              /\ results.documents = Take(initial.documents, TOP_K)
              /\ results.metadatas = Take(initial.metadatas, TOP_K)
              /\ \A p \in 1..Len(results.distances) :
                    results.distances[p] = [num |-> 2 * (SCALE \div 5),
                                            den |-> SCALE]

C16_Witness ==
    /\ RerankAnswered
    /\ Returned
    /\ llm_text = "[1, 5, 3]"
    /\ ShortScoreList
    /\ Len(initial.documents) = 4
    /\ Len(results.documents) = 4
    /\ results.documents[1] = initial.documents[2]
    /\ results.documents[4] = initial.documents[1]

\* ------------------------------------------------------------------------
\* Claims about malformed texts of the model
\* ------------------------------------------------------------------------
\* C17 as claimed: whatever text the model returns to the rerank-scoring
\* prompt or to the variant-generation prompt, query() does not raise
\* because of it: asked a question that is not blank, reranking and
\* multi_query end with a RAGResponse or with the model being unavailable.
C17_MalformedNeverFatal ==
    (/\ technique \in {"reranking", "multi_query"}
     /\ ~IsBlank(question)
     /\ rpc = "done") =>
        raised \in {"none", "LLMUnavailableError"}

\* ------------------------------------------------------------------------
\* Claims about multi-query retrieval
\* ------------------------------------------------------------------------
\* _multi_query_retrieve has queried every phrasing and fused the results
Fused ==
    /\ technique = "multi_query"
    /\ rpc \in {"answer", "done"}
    /\ Len(all_queries) >= 1
    /\ Len(retrieved) = Len(all_queries)

\* the identity of a passage: the pair (source_name, chunk_index)
Identity(meta) ==
    << MetaGet(meta, "source_name", ""), MetaGet(meta, "chunk_index", 0) >>

\* the appearances <<query, 0-based rank>> of a passage in the result lists
Appearances(id) ==
    {a \in (1..Len(retrieved)) \X (0..(TOP_K - 1)) :
        /\ a[2] < Len(retrieved[a[1]].metadatas)
        /\ Identity(retrieved[a[1]].metadatas[a[2] + 1]) = id}

\* sum of 1/(r + 60) over a set of appearances, as a multiple of 1/RRF_DEN
RECURSIVE SumOfReciprocalRanks(_)
SumOfReciprocalRanks(S) ==
    IF S = {} THEN 0
    ELSE LET a == CHOOSE x \in S : TRUE
         IN  (RRF_DEN \div (a[2] + 60)) + SumOfReciprocalRanks(S \ {a})

FusedScore(id) == SumOfReciprocalRanks(Appearances(id))

\* identities of all passages of all result lists
AllIds ==
    UNION {{Identity(retrieved[q].metadatas[r]) :
                r \in 1..Len(retrieved[q].metadatas)} :
           q \in 1..Len(retrieved)}

\* the passage is at rank 0 in the result lists of two queries or more
TwiceFirst(id) == Cardinality({a \in Appearances(id) : a[2] = 0}) >= 2

\* the passage appears once in all the result lists, at rank 0
OnceFirst(id) ==
    /\ Cardinality(Appearances(id)) = 1
    /\ \A a \in Appearances(id) : a[2] = 0

\* C18: fusion returns the unique passages, identified by
\* (source_name, chunk_index), in descending order of fused score and cut to
\* top_k, the fused score of a passage being the sum of 1/(r+60) over its
\* appearances at 0-based rank r in the result lists of all queries; a
\* passage at rank 0 in two lists has a strictly higher score than a
\* passage whose only appearance is one rank 0, and is ranked before it.
C18_ReciprocalRankFusion ==
    Fused =>
        LET k     == Len(results.documents)
            id(p) == Identity(results.metadatas[p])
            kept  == {id(p) : p \in 1..k}
        IN  /\ k = Min(TOP_K, Cardinality(AllIds))
            /\ Len(results.metadatas) = k /\ Len(results.distances) = k
            /\ kept \subseteq AllIds
            /\ \A p, q \in 1..k : p # q => id(p) # id(q)
            /\ \A p \in 1..k :
                  results.distances[p] =
                      [num |-> RRF_DEN - FusedScore(id(p)), den |-> RRF_DEN]
            /\ \A p, q \in 1..k :
                  p < q => FusedScore(id(p)) >= FusedScore(id(q))
            /\ \A x \in AllIds \ kept :
                  \A p \in 1..k : FusedScore(id(p)) >= FusedScore(x)
            /\ \A x, y \in AllIds :
                  (TwiceFirst(x) /\ OnceFirst(y)) =>
                      /\ FusedScore(x) > FusedScore(y)
                      /\ \A i, j \in 1..Len(fused) :
                            (/\ Identity(fused[i].meta) = x
                             /\ Identity(fused[j].meta) = y) =>
                                fused[i].score > fused[j].score
                      /\ y \in kept =>
                            /\ x \in kept
                            /\ \A p, q \in 1..k :
                                  (id(p) = x /\ id(q) = y) => p < q

C18_Witness ==
    /\ Fused
    /\ Returned
    /\ Len(store) = 6
    /\ Len(retrieved) = 4
    /\ Len(results.documents) = TOP_K
    /\ Cardinality(AllIds) = 6
    /\ TwiceFirst(Identity(results.metadatas[1]))
    /\ \E y \in AllIds : OnceFirst(y)

\* the vector-store calls of this query(), in order
VSCalls == SelectSeq(calls, LAMBDA c : c.kind = "vs")

\* the phrasings json.loads finds in the text of the model: its list, []
\* when the text is not a JSON list
Variants == IF ParsedText.type = "list" THEN ParsedText.items ELSE << >>

\* C19 as claimed: a multi_query call that got the variant text from the
\* model queries the vector store once for the question and once for each
\* of the first MULTI_QUERY_VARIANTS phrasings, in this order, each for
\* top_k passages; only the question when the text is not a JSON list.
C19_OneQueryPerPhrasing ==
    (/\ technique = "multi_query"
     /\ ~IsBlank(question)
     /\ rpc = "done"
     /\ ~(raised = "LLMUnavailableError" /\ LLMCallCount = 1)) =>
        LET expected == << JStr(question) >>
                            \o Take(Variants, MULTI_QUERY_VARIANTS)
        IN  VSCalls = [i \in 1..Len(expected) |-> VSCall(expected[i], TOP_K)]

\* ------------------------------------------------------------------------
\* Claims about the choice of the technique
\* ------------------------------------------------------------------------
\* C20: a query() called with a technique outside the four known ones runs
\* as "naive": the strategy is _naive_retrieve, so the only vector-store
\* call is one query of the raw question for top_k passages, the only call
\* of the model is the answer call, made after that query, and a returned
\* RAGResponse has technique "naive".
C20_UnknownTechniqueIsNaive ==
    (requested \notin TECHNIQUE_MAP /\ rpc # "idle") =>
        /\ technique = "naive"
        /\ Len(VSCalls) <= 1
        /\ \A i \in 1..Len(calls) :
              \/ i = 1 /\ calls[i] = VSCall(JStr(question), TOP_K)
              \/ i = 2 /\ calls[i] = LLMCall("answer")
        /\ rpc \in {"answer", "done"} => Len(VSCalls) = 1
        /\ Returned =>
              /\ response.technique = "naive"
              /\ response.citations =
                    BuildCitations(results.documents, results.metadatas,
                                   results.distances)

C20_Witness ==
    /\ requested = "bogus"
    /\ Returned
    /\ response.technique = "naive"
    /\ Len(response.citations) = 2
    /\ calls = << VSCall(JStr(question), TOP_K), LLMCall("answer") >>

\* ------------------------------------------------------------------------
\* Claims about the calls query() makes
\* ------------------------------------------------------------------------
\* C21: when a call of the model made during query() (hypothetical answer,
\* rerank scores, variants, final answer) raises LLMUnavailableError, the
\* error leaves query(): query() has ended with that error, has built no
\* RAGResponse and has made no further call after the one that failed.
C21_UnavailablePropagates ==
    unavailable # "none" =>
        /\ rpc = "done"
        /\ raised = "LLMUnavailableError"
        /\ response = NoRAGResponse
        /\ calls # << >>
        /\ calls[Len(calls)] = LLMCall(unavailable)
        /\ unavailable \in {"hyde", "rerank", "variants"} =>
              results = NoResults

C21_Witness ==
    /\ unavailable = "rerank"
    /\ technique = "reranking"
    /\ Len(initial.documents) = 3
    /\ raised = "LLMUnavailableError"
    /\ rpc = "done"
    /\ VSCallCount = 1
    /\ LLMCallCount = 1

\* the call of the model a strategy makes for itself
StrategyLLMCalls == {LLMCall("rerank"), LLMCall("variants")}

\* C22 as claimed: with technique reranking or multi_query, the strategy's
\* own call of the model has completed before any vector-store call of
\* that query() is issued.
C22_LLMBeforeStore ==
    technique \in {"reranking", "multi_query"} =>
        \A i \in 1..Len(calls) :
            calls[i].kind = "vs" =>
                \E j \in 1..(i - 1) : calls[j] \in StrategyLLMCalls

\* C22: multi_query calls the model for the variants first and queries the
\* vector store only after that call has returned; reranking does the
\* reverse: its one vector-store query (for RERANK_CANDIDATES candidates)
\* comes first, the scoring call of the model follows it, and no
\* vector-store call comes after the scoring call.
C22_SubCallOrder ==
    /\ technique = "multi_query" =>
          /\ calls # << >> => calls[1] = LLMCall("variants")
          /\ \A i \in 1..Len(calls) :
                calls[i] = LLMCall("variants") => i = 1
          /\ \A i \in 1..Len(calls) : calls[i].kind = "vs" => i > 1
    /\ technique = "reranking" =>
          /\ calls # << >> =>
                calls[1] = VSCall(JStr(question), RERANK_CANDIDATES)
          /\ \A i \in 1..Len(calls) : calls[i].kind = "vs" => i = 1
          /\ \A i \in 1..Len(calls) : calls[i] = LLMCall("rerank") => i = 2

C22_Witness ==
    /\ technique = "reranking"
    /\ Returned
    /\ calls = << VSCall(JStr(question), RERANK_CANDIDATES),
                  LLMCall("rerank"), LLMCall("answer") >>

\* C27: the score list reranking sorts by has one entry per candidate.
\* Text that is not a JSON list gives 3 for every candidate; a longer list
\* is cut to its first entries; a shorter list scores the first candidates
\* with its entries, entry i for candidate i, and 3 for the others. The
\* distance of each result is 1 - score/5 of its candidate under these
\* scores.
C27_OneScorePerCandidate ==
    RerankAnswered =>
        LET n        == Len(initial.documents)
            given    == Variants
            entry(i) == IF i <= Len(given) THEN given[i] ELSE JInt(3)
        IN  /\ Len(RerankScores(llm_text, n)) = n
            /\ \A i \in 1..n : RerankScores(llm_text, n)[i] = entry(i)
            /\ Reranked =>
                  \A p \in 1..Len(results.documents) :
                      results.distances[p] =
                          [num |-> SCALE - entry(CandidateOf(p)).int
                                               * (SCALE \div 5),
                           den |-> SCALE]

C27_Witness ==
    /\ Reranked
    /\ llm_text = "[1, 5, 3]"
    /\ Len(initial.documents) = 2
    /\ results.documents = << initial.documents[2], initial.documents[1] >>
    /\ results.distances = << [num |-> 0, den |-> SCALE],
                              [num |-> 4 * (SCALE \div 5), den |-> SCALE] >>

\* ------------------------------------------------------------------------
\* Claims about the source named by a citation
\* ------------------------------------------------------------------------
\* the chunks of the store carry the metadata ingest_file and ingest_url
\* write: the source under the key "source"
Ingested == store # << >> /\ "source" \in store[1].meta.keys

\* C30 as claimed: a citation of a chunk stored by ingest_file or
\* ingest_url names the source the chunk was ingested under, so citations
\* of chunks of two sources have two source names.
C30_CitationNamesSource ==
    (Returned /\ Ingested) =>
        /\ \A i \in 1..Len(response.citations) :
              response.citations[i].source_name = results.metadatas[i].source
        /\ \A i, j \in 1..Len(response.citations) :
              results.metadatas[i].source # results.metadatas[j].source =>
                  response.citations[i].source_name #
                      response.citations[j].source_name

\* ------------------------------------------------------------------------
\* Claims about the termination of complete()
\* ------------------------------------------------------------------------
PerSequence == LLM_MAX_RETRIES + 1

\* the requests of a non-streaming call stay within the bounds
WithinRequestBounds ==
    ~stream =>
        /\ TotalRequests <= 4 * PerSequence
        /\ \A m \in {PRIMARY, FALLBACK} : requests[m] <= 2 * PerSequence
        /\ seqRequests <= PerSequence
        /\ seqNo <= 4

\* a request beyond the first MAX_RETRIES+1 of a model belongs to the
\* empty-response retry of that model
ExtraOnlyByEmptyRetry ==
    (RequestStep /\ ~stream /\ requests'[model] > PerSequence) => retried

\* C28: a non-streaming complete() sends at most 4*(MAX_RETRIES+1) requests
\* in all and at most 2*(MAX_RETRIES+1) to one model, those past the first
\* MAX_RETRIES+1 of a model only in its empty-response retry, and the call
\* ends (it returns or raises) whatever the API answers.
C28_BoundedTermination ==
    /\ []WithinRequestBounds
    /\ [][ExtraOnlyByEmptyRetry]_vars
    /\ <>(stream \/ pc = "done")

C28_Witness ==
    /\ ~stream
    /\ pc = "done"
    /\ outcome = "unavailable"
    /\ requests[PRIMARY] = 2 * PerSequence
    /\ requests[FALLBACK] = 2 * PerSequence
    /\ seqNo = 4

\* ------------------------------------------------------------------------
\* Claims about the chat
\* ------------------------------------------------------------------------
\* the user's message of the call under way is the last entry of the
\* display list and of the store
UserMessageRecorded ==
    /\ display # << >>
    /\ display[Len(display)] = Shown("user", message)
    /\ persisted # << >>
    /\ persisted[Len(persisted)].role = "user"
    /\ persisted[Len(persisted)].content = message

\* rag.query raises LLMUnavailableError in this step
UnavailableStep == cpc = "query" /\ lastQuery' = "LLMUnavailableError"

\* C23: while rag.query runs, the user's message is already in the display
\* list and in the store; when rag.query raises LLMUnavailableError, on_chat
\* returns without raising, the store and the entries of the display list
\* are kept, and one assistant entry with the notice is added to the
\* display list.
C23_UnavailableIsFriendly ==
    /\ [](cpc = "query" => (UserMessageRecorded /\ ~IsBlank(message)))
    /\ [][UnavailableStep =>
            /\ chatRaised' = "none"
            /\ cpc' = "idle"
            /\ persisted' = persisted
            /\ display' = Append(display,
                                 Shown("assistant", UNAVAILABLE_NOTICE))]_vars

C23_Witness ==
    /\ cpc = "idle"
    /\ lastQuery = "LLMUnavailableError"
    /\ chatRaised = "none"
    /\ turns = 2
    /\ display = << Shown("user", "What is ML?"),
                    Shown("assistant", "ML is a subset of AI [1]."),
                    Shown("user", "Why?"),
                    Shown("assistant", UNAVAILABLE_NOTICE) >>
    /\ persisted = << Stored("user", "What is ML?", ""),
                      Stored("assistant", "ML is a subset of AI [1].", "naive"),
                      Stored("user", "Why?", "") >>

\* what a reload of the notebook shows
Reloaded ==
    [i \in 1..Len(persisted) |->
        Shown(persisted[i].role, persisted[i].content)]

\* C29 as claimed: after any sequence of on_chat calls, failed ones
\* included, the store holds the same (role, content) messages in the same
\* order as the display list on_chat returned.
C29_PersistedEqualsDisplayed ==
    cpc = "idle" => display = Reloaded

\* ------------------------------------------------------------------------
\* Claims about the summarization
\* ------------------------------------------------------------------------
\* number of 1500-character windows of a text of n characters
WindowCount(n) == (n + 1499) \div 1500

\* the piece window i contributes: the first 500 characters of the window
\* when its call failed, a summary of the model otherwise
RightPiece(piece, i) ==
    IF i \in failedWindows
    THEN /\ piece.kind = "text"
         /\ piece.from = 1500 * (i - 1)
         /\ piece.to = Min(1500 * (i - 1) + 500, Min(1500 * i, text_len))
    ELSE /\ piece.kind = "summary"
         /\ piece.llm \in SummaryTexts

OnePiecePerWindow ==
    /\ Len(summary.pieces) = WindowCount(text_len)
    /\ \A i \in 1..Len(summary.pieces) : RightPiece(summary.pieces[i], i)

C25_ConstructedOnce ==
    /\ \A h \in Handles : constructions[h] <= 1
    /\ \A t, u \in Threads :
          (tpc[t] = "done" /\ tpc[u] = "done" /\ target[t] = target[u])
              => got[t] = got[u]

\* ------------------------------------------------------------------------
\* Claims about add_documents
\* ------------------------------------------------------------------------
\* this step is an add_documents call with the arguments of the call
\* before it
RepeatedAdd ==
    /\ addCalls >= 1
    /\ addCalls' = addCalls + 1
    /\ lastArgs' = lastArgs

\* C26: add_documents is idempotent: a call with the chunks and metadatas
\* of the call before it leaves the collection with the same stored chunks
\* and the same count, and ends as that call ended.
C26_Idempotent ==
    [][RepeatedAdd =>
          /\ collection' = collection
          /\ Cardinality(DOMAIN collection') = Cardinality(DOMAIN collection)
          /\ addRaised' = addRaised]_vars

C26_Witness ==
    /\ addCalls = 2
    /\ Cardinality(DOMAIN collection) = 4
    /\ repeated
    /\ addRaised = "none"
    /\ lastArgs.chunks = << "Hello world", "Goodbye world" >>
    /\ lastArgs.metadatas =
          << [source |-> Absent, source_name |-> "test.txt"],
             [source |-> Absent, source_name |-> "test.txt"] >>
    /\ StoreChunkId("notes.txt", 1) \in DOMAIN collection
    /\ collection[StoreChunkId("1", 1)].document = "Goodbye world"

====
